---- MODULE Spec2Model ----
(***************************************************************************)
(* A model of src/src/main.py: the sample generator, the process_data     *)
(* pipeline and the __main__ driver, over an abstract file system.        *)
(*                                                                         *)
(* Paths are tuples <<root, "data", name>>; the empty tuple stands for an *)
(* absent (None) argument.  A CSV file is a record [kind, cols, rows,     *)
(* text], the log file a record [kind, records]; a DataFrame is a record  *)
(* [cols, rows, text] whose rows are records of numbers and labels, the   *)
(* cells of a column that holds other text being kept in text.            *)
(***************************************************************************)
EXTENDS Integers, Sequences, FiniteSets, TLC

(* ------------------------------ bounds -------------------------------- *)

\* Largest number of data rows of a CSV file placed in the file system.
MaxRows == 2
\* Largest number of records in the log file: a caller that has configured
\* logging makes no call that would take the log file beyond it.
MaxLog == 20
\* A caller calls setup_logging as long as the logger has fewer file
\* handlers than this.
MaxHandlers == 2

(* ------------------------- program constants -------------------------- *)

\* size=5 and range(1, 6) of create_sample_dataframe
SampleRows == 5
\* np.random.randint(10, 50, ...): low inclusive, high exclusive
RandLow == 10
RandHigh == 50
\* df["value1"] + 10
Addend == 10
\* 1e-6 is 1 / EpsilonInv
EpsilonInv == 1000000
\* df["value1"] > 20
FilterThreshold == 20
\* df_filtered["value1"] > 35
HighThreshold == 35

(* ------------------------------- paths -------------------------------- *)

\* The value of PROJECT_ROOT computed when the module is imported, and the
\* temporary directory a test fixture may assign to it afterwards.
ImportRoot == "R0"
PatchedRoot == "R1"
Roots == {ImportRoot, PatchedRoot}

None == <<>>

os_path_join(root, name) == <<root, "data", name>>

\* The three module-level paths are computed once, from the import-time root.
DEFAULT_INPUT_CSV_PATH == os_path_join(ImportRoot, "sample_input.csv")
DEFAULT_OUTPUT_CSV_PATH == os_path_join(ImportRoot, "processed_output.csv")
DEFAULT_LOG_FILE_PATH == os_path_join(ImportRoot, "data_processing.log")

\* data/sample_input.csv under the patched root, and a caller-chosen file
\* (test_input.csv, empty_input.csv, non_existent_file.csv of the tests).
PatchedInputPath == os_path_join(PatchedRoot, "sample_input.csv")
UserPath == os_path_join(PatchedRoot, "test_input.csv")

InputPaths == {DEFAULT_INPUT_CSV_PATH, UserPath}
DataPaths == InputPaths \cup {PatchedInputPath, DEFAULT_OUTPUT_CSV_PATH}
Paths == DataPaths \cup {DEFAULT_LOG_FILE_PATH}

\* The arguments process_data is called with.
Args == {None, UserPath}

dirname(path) == path[1]

(* ------------------------------ tables -------------------------------- *)

InputCols == <<"id", "category", "value1", "value2">>

\* pd.DataFrame(): no columns, no rows.
EmptyDataFrame == [cols |-> <<>>, rows |-> <<>>, text |-> {}]

HasCol(df, c) == \E i \in 1..Len(df.cols) : df.cols[i] = c

\* The column holds text that is not a number (dtype object): its cells
\* are in df.text, not in the rows.
HasText(df, c) == \E t \in df.text : t.col = c

\* DataFrame.empty: some axis has length 0.
empty(df) == Len(df.cols) = 0 \/ Len(df.rows) = 0

\* The element of a one-element set: Only({e(x) : x \in {v}}) is e(v), with
\* v worked out once.
Only(S) == CHOOSE x \in S : TRUE

\* df[c] = values: a column that is not yet there is appended, an existing
\* one is replaced; values[i] is the new cell of row i.
SetCol(df, c, values) ==
    Only({[cols |-> IF HasCol(d, c) THEN d.cols ELSE Append(d.cols, c),
           rows |-> [i \in 1..Len(d.rows) |-> (c :> v[i]) @@ d.rows[i]],
           text |-> d.text] :
          d \in {df}, v \in {values}})

(* ------------------------------- files -------------------------------- *)

Missing == [kind |-> "missing", cols |-> <<>>, rows |-> <<>>, text |-> {}]
ZeroByte == [kind |-> "zero", cols |-> <<>>, rows |-> <<>>, text |-> {}]
Malformed == [kind |-> "malformed", cols |-> <<>>, rows |-> <<>>, text |-> {}]
\* A file that cannot be opened: no permission, or a directory of that name.
NoAccess == [kind |-> "noaccess", cols |-> <<>>, rows |-> <<>>, text |-> {}]

\* The log file, holding n records.
LogFile(n) == [kind |-> "log", records |-> n]

\* DataFrame.to_csv(path, index=False): header row, then the rows.
to_csv(df) == [kind |-> "csv", cols |-> df.cols, rows |-> df.rows, text |-> df.text]

\* pd.read_csv on a file that holds a header and rows.
read_csv(file) == [cols |-> file.cols, rows |-> file.rows, text |-> file.text]

\* What pd.read_csv raises on the file: "EmptyDataError" for a file with no
\* columns to parse, "Exception" for any other failure (ParserError,
\* PermissionError, ...), "none" for a file it parses.
read_outcome(file) ==
    CASE file.kind = "zero" -> "EmptyDataError"
      [] file.kind \in {"malformed", "noaccess"} -> "Exception"
      [] OTHER -> "none"

(* -------------------------- contents of files ------------------------- *)

FileRow(i, v) == [id |-> i, category |-> "X", value1 |-> v, value2 |-> 10 * i]

FileTable(vs) ==
    [kind |-> "csv", cols |-> InputCols,
     rows |-> [i \in 1..Len(vs) |-> FileRow(i, vs[i])], text |-> {}]

\* The value1 cells of a file placed in the file system are a stretch of
\* this round of values, both sides of the two thresholds.
FileValue1Round == <<FilterThreshold, FilterThreshold + 1, HighThreshold, HighThreshold + 1>>

FileValue1Stretch(k, n) ==
    [i \in 1..n |-> FileValue1Round[((k + i - 2) % Len(FileValue1Round)) + 1]]

FullTables ==
    {FileTable(FileValue1Stretch(k, n)) : k \in 1..Len(FileValue1Round), n \in 0..MaxRows}

\* Files that parse but lack a column the pipeline reads: header only, or
\* header and one row; the column that is there holds a number or text that
\* is not one ("1,X,abc"); and a file that lacks both columns.
NoValue1Tables ==
    {[kind |-> "csv", cols |-> <<"id", "category", "value2">>, rows |-> <<>>,
      text |-> {}],
     [kind |-> "csv", cols |-> <<"id", "category", "value2">>,
      rows |-> <<[id |-> 1, category |-> "X", value2 |-> 10]>>, text |-> {}],
     [kind |-> "csv", cols |-> <<"id", "category", "value2">>,
      rows |-> <<[id |-> 1, category |-> "X"]>>,
      text |-> {[col |-> "value2", cells |-> <<"abc">>]}],
     [kind |-> "csv", cols |-> <<"id", "category">>,
      rows |-> <<[id |-> 1, category |-> "X"]>>, text |-> {}]}
NoValue2Tables ==
    {[kind |-> "csv", cols |-> <<"id", "category", "value1">>, rows |-> <<>>,
      text |-> {}],
     [kind |-> "csv", cols |-> <<"id", "category", "value1">>,
      rows |-> <<[id |-> 1, category |-> "X", value1 |-> HighThreshold + 1]>>,
      text |-> {}],
     [kind |-> "csv", cols |-> <<"id", "category", "value1">>,
      rows |-> <<[id |-> 1, category |-> "X"]>>,
      text |-> {[col |-> "value1", cells |-> <<"abc">>]}]}

\* Files that parse and have every column, one row, and text that is not a
\* number in value1, in value2, or in both: "1,X,abc,10", "1,X,36,abc" and
\* "1,X,abc,def".
TextValue1Tables ==
    {[kind |-> "csv", cols |-> InputCols,
      rows |-> <<[id |-> 1, category |-> "X", value2 |-> 10]>>,
      text |-> {[col |-> "value1", cells |-> <<"abc">>]}],
     [kind |-> "csv", cols |-> InputCols,
      rows |-> <<[id |-> 1, category |-> "X"]>>,
      text |-> {[col |-> "value1", cells |-> <<"abc">>],
                [col |-> "value2", cells |-> <<"def">>]}]}
TextValue2Tables ==
    {[kind |-> "csv", cols |-> InputCols,
      rows |-> <<[id |-> 1, category |-> "X", value1 |-> HighThreshold + 1]>>,
      text |-> {[col |-> "value2", cells |-> <<"abc">>]}]}

Contents == {ZeroByte, Malformed, NoAccess} \cup FullTables
                \cup NoValue1Tables \cup NoValue2Tables
                \cup TextValue1Tables \cup TextValue2Tables

\* What an earlier run may have left at the output location.
OldOutput == to_csv([cols |-> <<"id">>, rows |-> <<[id |-> 0]>>, text |-> {}])

(* -------------------------- sample generator -------------------------- *)

\* Draws of np.random.randint(10, 50, size=5): vectors of five values of
\* the range, none, some and all of them above the filter threshold.
SampleValue1s ==
    {vs \in {[i \in 1..SampleRows |-> RandLow],
             <<RandLow, FilterThreshold + 1, HighThreshold, HighThreshold + 1, RandHigh - 1>>} :
        \A i \in 1..SampleRows : vs[i] \in RandLow..(RandHigh - 1)}
\* Draws of np.random.rand(5) * 100, as whole numbers.
SampleValue2s == {<<5, 25, 50, 75, 95>>}

Draws == [value1 : SampleValue1s, value2 : SampleValue2s]

NoDraw == [value1 |-> <<>>, value2 |-> <<>>]

SampleCategories == <<"A", "B", "A", "C", "B">>

create_sample_dataframe(draw) ==
    [cols |-> InputCols,
     rows |-> [i \in 1..Len(draw.value1) |->
                 [id |-> i, category |-> SampleCategories[i],
                  value1 |-> draw.value1[i], value2 |-> draw.value2[i]]],
     text |-> {}]

(* ----------------------------- transforms ----------------------------- *)

value1_plus_10(row) == row.value1 + Addend

\* value2 / (value1 + 1e-6) as the exact fraction num / den.
value2_div_value1(row) ==
    [num |-> row.value2 * EpsilonInv, den |-> row.value1 * EpsilonInv + 1]

\* A mask that keeps the rows at the threshold too.
filter_mask_inclusive(row) == row.value1 >= FilterThreshold

\* The mask df["value1"] > 20.
filter_mask(row) == row.value1 > FilterThreshold

\* A labelling that calls the threshold itself "High".
value1_type_inclusive(row) == IF row.value1 >= HighThreshold THEN "High" ELSE "Medium"

\* np.where(value1 > 35, "High", "Medium")
value1_type(row) == IF row.value1 > HighThreshold THEN "High" ELSE "Medium"

RECURSIVE Keep(_, _)
\* df[mask]: the rows whose mask is set, in their order.
Keep(rows, i) ==
    IF i > Len(rows) THEN <<>>
    ELSE IF filter_mask(rows[i]) THEN <<rows[i]>> \o Keep(rows, i + 1)
         ELSE Keep(rows, i + 1)

add_value1_plus_10(df) ==
    Only({SetCol(d, "value1_plus_10",
                 [i \in 1..Len(d.rows) |-> value1_plus_10(d.rows[i])]) : d \in {df}})

add_value2_div_value1(df) ==
    Only({SetCol(d, "value2_div_value1",
                 [i \in 1..Len(d.rows) |-> value2_div_value1(d.rows[i])]) : d \in {df}})

df_filtered(df) ==
    Only({[cols |-> d.cols, rows |-> Keep(d.rows, 1), text |-> d.text] : d \in {df}})

add_value1_type(df) ==
    Only({SetCol(d, "value1_type",
                 [i \in 1..Len(d.rows) |-> value1_type(d.rows[i])]) : d \in {df}})

(* ---------------------------- process_data ---------------------------- *)

\* input_csv_path if input_csv_path else DEFAULT_INPUT_CSV_PATH
effective_input_path(input_csv_path) ==
    IF input_csv_path # None THEN input_csv_path ELSE DEFAULT_INPUT_CSV_PATH

\* os.path.exists
exists(files, path) == files[path].kind # "missing"

\* A pipeline that generates a sample whether or not the file is there.
generates_always(files, path) == TRUE

\* The else branch of the existence test: a sample is generated.
generates(files, path) == ~exists(files, path)

\* os.makedirs(dir, exist_ok=True) fails when the directory cannot be made
\* (a file holds its name, or its parent is not writable).
makedirs_fails(dirs, root) == dirs[root] = "blocked"

makedirs(dirs, root) == [dirs EXCEPT ![root] = "present"]

\* A pipeline that saves the sample to the path it was asked for.
sample_path_effective(effective) == effective

\* The file the generated sample is saved to.
sample_path(effective) == DEFAULT_INPUT_CSV_PATH

\* Opening a file for writing fails when its directory does not exist or
\* the file may not be written.
write_fails(dirs, files, path) ==
    dirs[dirname(path)] # "present" \/ files[path].kind = "noaccess"

\* The records of the logger calls made, in their order, are lists of
\* levels.  handlers is the number of file handlers the logger has: each run
\* of setup_logging in the process adds one, and each of them takes every
\* level from DEBUG up and appends the record to the log file.
log_append(files, handlers, records) ==
    IF handlers > 0 /\ records # <<>>
    THEN [files EXCEPT ![DEFAULT_LOG_FILE_PATH] =
                           LogFile(@.records + handlers * Len(records))]
    ELSE files

\* The records create_sample_dataframe logs, before and after the draw.
create_sample_log == <<"DEBUG", "DEBUG">>

\* The part of process_data after the load: two derived columns, the
\* filter, the third derived column.  df["value1"] and df["value2"] raise
\* KeyError when the column is not there; text + 10 and text / number raise
\* TypeError.
transform(df) ==
    IF ~HasCol(df, "value1")
    THEN [outcome |-> "raised", error |-> "KeyError", stages |-> <<>>,
          log |-> <<"INFO", "INFO", "DEBUG">>, result |-> EmptyDataFrame]
    ELSE IF HasText(df, "value1")
    THEN [outcome |-> "raised", error |-> "TypeError", stages |-> <<>>,
          log |-> <<"INFO", "INFO", "DEBUG">>, result |-> EmptyDataFrame]
    ELSE IF ~HasCol(df, "value2")
    THEN [outcome |-> "raised", error |-> "KeyError",
          stages |-> <<"value1_plus_10">>,
          log |-> <<"INFO", "INFO", "DEBUG", "DEBUG">>, result |-> EmptyDataFrame]
    ELSE IF HasText(df, "value2")
    THEN [outcome |-> "raised", error |-> "TypeError",
          stages |-> <<"value1_plus_10">>,
          log |-> <<"INFO", "INFO", "DEBUG", "DEBUG">>, result |-> EmptyDataFrame]
    ELSE [outcome |-> "returned", error |-> "none",
          stages |-> <<"value1_plus_10", "value2_div_value1", "filter", "value1_type">>,
          log |-> <<"INFO", "INFO", "DEBUG", "DEBUG", "DEBUG", "DEBUG", "DEBUG",
                    "INFO", "INFO">>,
          result |-> add_value1_type(df_filtered(
                         add_value2_div_value1(add_value1_plus_10(df))))]

\* The load of process_data (the try statement): the DataFrame read or
\* generated, the error caught ("none" when there is none), the records
\* logged, and the files afterwards.
load(effective, dirs, files, draw) ==
    IF ~generates(files, effective)
    THEN [error |-> read_outcome(files[effective]), stages |-> <<"read_csv">>,
          log |-> IF read_outcome(files[effective]) = "none"
                  THEN <<"INFO">> ELSE <<"INFO", "ERROR">>,
          df |-> IF read_outcome(files[effective]) = "none"
                 THEN read_csv(files[effective]) ELSE EmptyDataFrame,
          sample |-> EmptyDataFrame, saved |-> FALSE, files |-> files]
    ELSE Only({
        IF write_fails(dirs, files, sample_path(effective))
        THEN [error |-> "Exception", stages |-> <<"create_sample_dataframe", "to_csv">>,
              log |-> <<"WARNING">> \o create_sample_log \o <<"ERROR">>,
              df |-> EmptyDataFrame, sample |-> df, saved |-> FALSE, files |-> files]
        ELSE [error |-> "none", stages |-> <<"create_sample_dataframe", "to_csv">>,
              log |-> <<"WARNING">> \o create_sample_log \o <<"INFO">>,
              df |-> df, sample |-> df, saved |-> TRUE,
              files |-> [files EXCEPT ![sample_path(effective)] = to_csv(df)]] :
        df \in {create_sample_dataframe(draw)}})

\* A load whose only except clause is the one for EmptyDataError.
load_except_empty_only(error) == error = "EmptyDataError"

\* The except clauses of the load: EmptyDataError, then Exception.
load_except(error) == error \in {"EmptyDataError", "Exception"}

\* process_data(input_csv_path) with PROJECT_ROOT = root, in the file system
\* (dirs, files), the generator drawing draw, the logger having handlers
\* file handlers.  outcome is "returned" or "raised"; error names what was
\* raised or caught; log lists the records logged.
process_data(input_csv_path, root, dirs, files, draw, handlers) ==
    LET effective == effective_input_path(input_csv_path)
        base == [arg |-> input_csv_path, root |-> root, effective |-> effective,
                 existed |-> exists(files, effective)]
    IN  IF makedirs_fails(dirs, root)
        THEN [call |-> [outcome |-> "raised", error |-> "OSError", stages |-> <<>>,
                        log |-> <<>>, result |-> EmptyDataFrame,
                        sample |-> EmptyDataFrame, saved |-> FALSE] @@ base,
              dirs |-> dirs, files |-> files]
        ELSE Only({
            Only({[call |-> c, dirs |-> makedirs(dirs, root),
                   files |-> log_append(l.files, handlers, c.log)] :
                c \in {(IF l.error # "none" /\ ~load_except(l.error)
                        THEN [outcome |-> "raised", error |-> l.error,
                              stages |-> <<"makedirs">> \o l.stages,
                              log |-> SubSeq(l.log, 1, Len(l.log) - 1),
                              result |-> EmptyDataFrame]
                        ELSE IF l.error # "none"
                        THEN [outcome |-> "returned", error |-> l.error,
                              stages |-> <<"makedirs">> \o l.stages,
                              log |-> l.log, result |-> EmptyDataFrame]
                        ELSE Only({[outcome |-> t.outcome, error |-> t.error,
                                    stages |-> <<"makedirs">> \o l.stages \o t.stages,
                                    log |-> l.log \o t.log,
                                    result |-> t.result] : t \in {transform(l.df)}}))
                       @@ [sample |-> l.sample, saved |-> l.saved] @@ base}}) :
            l \in {load(effective, makedirs(dirs, root), files, draw)}})

(* ------------------------------- driver ------------------------------- *)

\* setup_logging: the directory of the log file is made, the log file is
\* opened for appending (and so created when it is not there), the handlers
\* are added to the logger.  Nothing of it is inside a try statement.
setup_logging(dirs, files) ==
    IF makedirs_fails(dirs, dirname(DEFAULT_LOG_FILE_PATH))
    THEN [raised |-> TRUE, dirs |-> dirs, files |-> files]
    ELSE IF files[DEFAULT_LOG_FILE_PATH].kind = "noaccess"
    THEN [raised |-> TRUE, dirs |-> makedirs(dirs, dirname(DEFAULT_LOG_FILE_PATH)),
          files |-> files]
    ELSE [raised |-> FALSE, dirs |-> makedirs(dirs, dirname(DEFAULT_LOG_FILE_PATH)),
          files |-> [files EXCEPT ![DEFAULT_LOG_FILE_PATH] =
                        IF @.kind = "missing" THEN LogFile(0) ELSE @]]

\* setup_logging raises when the directory of the log file cannot be made or
\* the log file cannot be opened.
setup_logging_fails(dirs, files) == setup_logging(dirs, files).raised

\* A driver that saves whatever the pipeline returns.
should_save_always(processed_df) == TRUE

\* if not processed_df.empty
should_save(processed_df) == ~empty(processed_df)

\* A driver whose except clause names OSError alone.
main_except_oserror(error) == error = "OSError"

\* except Exception: every exception raised in the try statement is caught.
main_except(error) ==
    error \in {"OSError", "KeyError", "TypeError", "Exception", "EmptyDataError"}

\* The try statement of __main__ with its except clause, the logger having
\* the one file handler of the script's setup_logging(): the invocation of process_data, the files afterwards, and
\* where the script goes on ("end": the "finished" log; "crashed": an
\* exception ends the process).
main_try(root, dirs, files, draw) ==
    LET before == files[DEFAULT_OUTPUT_CSV_PATH]
        after(error) == IF main_except(error) THEN "end" ELSE "crashed"
        caught(fls, error) ==
            IF main_except(error) THEN log_append(fls, 1, <<"CRITICAL">>) ELSE fls
    IN  Only({
        IF r.call.outcome = "raised"
        THEN [call |-> r.call, dirs |-> r.dirs, files |-> caught(r.files, r.call.error),
              run |-> [raised |-> "process_data",
                       critical |-> main_except(r.call.error),
                       save_called |-> FALSE, out_before |-> before],
              pc |-> after(r.call.error)]
        ELSE IF ~should_save(r.call.result)
        THEN [call |-> r.call, dirs |-> r.dirs,
              files |-> log_append(r.files, 1, <<"INFO">>),
              run |-> [raised |-> "none", critical |-> FALSE,
                       save_called |-> FALSE, out_before |-> before],
              pc |-> "end"]
        ELSE IF write_fails(r.dirs, r.files, DEFAULT_OUTPUT_CSV_PATH)
        THEN [call |-> r.call, dirs |-> r.dirs, files |-> caught(r.files, "OSError"),
              run |-> [raised |-> "to_csv", critical |-> main_except("OSError"),
                       save_called |-> TRUE, out_before |-> before],
              pc |-> after("OSError")]
        ELSE [call |-> r.call, dirs |-> r.dirs,
              files |-> log_append([r.files EXCEPT ![DEFAULT_OUTPUT_CSV_PATH] =
                                                      to_csv(r.call.result)],
                                   1, <<"INFO">>),
              run |-> [raised |-> "none", critical |-> FALSE,
                       save_called |-> TRUE, out_before |-> before],
              pc |-> "end"] :
        r \in {process_data(DEFAULT_INPUT_CSV_PATH, root, dirs, files, draw, 1)}})

(* -------------------------------- state ------------------------------- *)

VARIABLES
    projectRoot,  \* the module attribute PROJECT_ROOT
    dataDir,      \* per root, the state of its data directory
    fs,           \* per path, the file there
    handlers,     \* the number of file handlers of the logger of the process
    last,         \* the latest invocation of process_data
    pc,           \* "idle", or the position of the __main__ block
    run           \* what the __main__ block has done

vars == <<projectRoot, dataDir, fs, handlers, last, pc, run>>

DirStates == {"absent", "present", "blocked"}

NoCall ==
    [called |-> FALSE, repeat |-> FALSE, arg |-> None, root |-> ImportRoot,
     effective |-> DEFAULT_INPUT_CSV_PATH, existed |-> FALSE,
     sample |-> EmptyDataFrame, saved |-> FALSE, outcome |-> "none",
     error |-> "none", stages |-> <<>>, log |-> <<>>, result |-> EmptyDataFrame]

NoRun == [raised |-> "none", critical |-> FALSE, save_called |-> FALSE,
          out_before |-> Missing]

Init ==
    /\ projectRoot = ImportRoot
    /\ pc = "idle"
    /\ handlers = 0
    /\ last = NoCall
    /\ run = NoRun
    /\ dataDir \in [Roots -> DirStates]
    /\ \E p \in InputPaths, c \in Contents \cup {Missing},
          o \in {Missing, OldOutput, NoAccess}, g \in {Missing, NoAccess} :
          fs = [q \in Paths |-> IF q = p THEN c
                                ELSE IF q = DEFAULT_OUTPUT_CSV_PATH THEN o
                                ELSE IF q = DEFAULT_LOG_FILE_PATH THEN g
                                ELSE Missing]
    /\ \A q \in Paths : fs[q].kind # "missing" => dataDir[dirname(q)] = "present"

\* monkeypatch.setattr(main_module, "PROJECT_ROOT", tmpdir_path), and its undoing.
SetProjectRoot(r) ==
    /\ pc = "idle"
    /\ r # projectRoot
    /\ projectRoot' = r
    /\ UNCHANGED <<dataDir, fs, handlers, last, pc, run>>

\* A caller that has imported the module calls setup_logging(): the tests
\* do when the logger has no handlers yet, another caller may do it again,
\* and the logger then has one more file handler on the same file.  A call
\* that raises leaves the handlers as they were.
CallSetupLogging ==
    /\ pc = "idle"
    /\ handlers < MaxHandlers
    /\ \E s \in {setup_logging(dataDir, fs)} :
          /\ ~s.raised
          /\ dataDir' = s.dirs
          /\ fs' = s.files
    /\ handlers' = handlers + 1
    /\ UNCHANGED <<projectRoot, last, pc, run>>

\* A caller that has imported the module calls create_sample_dataframe():
\* the table goes to the caller, the two records to the log file.
CallCreateSampleDataframe ==
    /\ pc = "idle"
    /\ \E draw \in Draws :
          \E df \in {create_sample_dataframe(draw)} :
              /\ Len(df.rows) = SampleRows
              /\ fs' = log_append(fs, handlers, create_sample_log)
    /\ handlers > 0 => fs'[DEFAULT_LOG_FILE_PATH].records <= MaxLog
    /\ UNCHANGED <<projectRoot, dataDir, handlers, last, pc, run>>

\* The record of an invocation, given the one before it.
Record(call) ==
    call @@ [called |-> TRUE,
             repeat |-> last.called /\ last.arg = call.arg /\ last.root = call.root]

\* A caller that has imported the module calls process_data(arg).
CallProcessData(arg) ==
    /\ pc = "idle"
    /\ \E draw \in (IF generates(fs, effective_input_path(arg)) THEN Draws ELSE {NoDraw}) :
          \E r \in {process_data(arg, projectRoot, dataDir, fs, draw, handlers)} :
              /\ last' = Record(r.call)
              /\ dataDir' = r.dirs
              /\ fs' = r.files
    /\ handlers > 0 => fs'[DEFAULT_LOG_FILE_PATH].records <= MaxLog
    /\ UNCHANGED <<projectRoot, handlers, pc, run>>

\* __main__: setup_logging() and the "started" log, in a process of its
\* own (no invocation before, a logger without handlers).  An exception
\* here is outside the try statement and ends the process with a traceback.
MainSetupLogging ==
    /\ pc = "idle"
    /\ projectRoot = ImportRoot
    /\ ~last.called /\ handlers = 0
    /\ \E s \in {setup_logging(dataDir, fs)} :
          /\ dataDir' = s.dirs
          /\ IF s.raised
             THEN /\ pc' = "crashed"
                  /\ run' = [run EXCEPT !.raised = "setup_logging"]
                  /\ fs' = s.files
                  /\ UNCHANGED handlers
             ELSE /\ pc' = "try"
                  /\ run' = run
                  /\ fs' = log_append(s.files, 1, <<"INFO">>)
                  /\ handlers' = 1
    /\ UNCHANGED <<projectRoot, last>>

\* __main__: the try statement with its except clause.
MainTry ==
    /\ pc = "try"
    /\ \E draw \in (IF generates(fs, DEFAULT_INPUT_CSV_PATH) THEN Draws ELSE {NoDraw}) :
          \E m \in {main_try(projectRoot, dataDir, fs, draw)} :
              /\ last' = Record(m.call)
              /\ dataDir' = m.dirs
              /\ fs' = m.files
              /\ run' = m.run
              /\ pc' = m.pc
    /\ UNCHANGED <<projectRoot, handlers>>

\* __main__: the "finished" log, after which the script ends.
MainFinished ==
    /\ pc = "end"
    /\ pc' = "finished"
    /\ fs' = log_append(fs, handlers, <<"INFO">>)
    /\ UNCHANGED <<projectRoot, dataDir, handlers, last, run>>

Main == MainSetupLogging \/ MainTry \/ MainFinished

Next ==
    \/ \E r \in Roots : SetProjectRoot(r)
    \/ CallSetupLogging
    \/ CallCreateSampleDataframe
    \/ \E arg \in Args : CallProcessData(arg)
    \/ MainSetupLogging
    \/ MainTry
    \/ MainFinished

Spec == Init /\ [][Next]_vars

\* The interpreter runs the statements of the script one after the other.
FairSpec == Spec /\ WF_vars(Main)

(* ------------------------------- claims ------------------------------- *)

\* The table the latest invocation loaded: the file at the effective path,
\* or the generated sample.
LoadedRows == IF last.existed THEN fs[last.effective].rows ELSE last.sample.rows

InputPart(row) ==
    [id |-> row.id, category |-> row.category, value1 |-> row.value1,
     value2 |-> row.value2]

Succeeded == last.called /\ last.outcome = "returned" /\ last.error = "none"

\* The load of the latest invocation failed: the file at the effective path
\* is zero-byte, unparsable or unreadable, or the sample could not be saved.
LoadFailed ==
    \/ last.existed /\ fs[last.effective].kind \in {"zero", "malformed", "noaccess"}
    \/ ~last.existed /\ ~last.saved

\* The table the latest invocation loaded lacks a column the transforms read.
LacksColumn ==
    IF last.existed
    THEN \E c \in {"value1", "value2"} : ~HasCol(fs[last.effective], c)
    ELSE FALSE

\* The table the latest invocation loaded holds text that is not a number
\* in a column the transforms compute with.
TextInColumn ==
    IF last.existed
    THEN \E c \in {"value1", "value2"} : HasText(fs[last.effective], c)
    ELSE FALSE

\* The loaded table has no column c: the first use of df[c] raises KeyError.
Lacks(c) == last.existed /\ ~HasCol(fs[last.effective], c)

\* The loaded table has text in column c: the first arithmetic on df[c]
\* raises TypeError.
TextIn(c) == last.existed /\ HasCol(fs[last.effective], c) /\ HasText(fs[last.effective], c)

\* C1 as stated: an invocation that got as far as resolving its path never
\* raises to its caller.
C1_NeverRaises == (last.called /\ last.stages # <<>>) => last.outcome = "returned"

\* C1, amended: every failure of the load (zero-byte, unparsable or
\* unreadable file, sample that cannot be saved) is recovered, the invocation
\* returning the empty table; the invocation raises exactly when the data
\* directory cannot be made (OSError) or the loaded table has a defect in
\* value1 or value2, a column that is missing or that holds text that is not
\* a number, and otherwise returns.  The exception is that of the first
\* defect the transforms meet, value1 being used before value2: KeyError if
\* value1 is missing, TypeError if value1 holds text; with value1 sound,
\* KeyError if value2 is missing, TypeError if value2 holds text.
C1_LoadFailuresRecovered ==
    last.called =>
        /\ (last.stages # <<>> /\ LoadFailed) =>
               (last.outcome = "returned" /\ last.result = EmptyDataFrame
                  /\ last.error \in {"EmptyDataError", "Exception"})
        /\ last.outcome = "raised" <=>
               (last.stages = <<>> \/ (~LoadFailed /\ (LacksColumn \/ TextInColumn)))
        /\ (last.outcome = "raised" /\ last.stages = <<>>) => last.error = "OSError"
        /\ (last.outcome = "raised" /\ last.stages # <<>>) =>
               /\ last.error \in {"KeyError", "TypeError"}
               /\ last.error = "KeyError" <=>
                      \/ Lacks("value1")
                      \/ ~TextIn("value1") /\ Lacks("value2")
               /\ last.error = "TypeError" <=>
                      \/ TextIn("value1")
                      \/ ~Lacks("value1") /\ ~Lacks("value2") /\ TextIn("value2")
               /\ (Lacks("value1") \/ TextIn("value1")) <=>
                      last.stages = <<"makedirs", "read_csv">>
        /\ last.outcome \in {"returned", "raised"}

\* C1's case: an unparsable file was read, and the empty table came back.
C1_Witness ==
    /\ last.called /\ last.existed /\ fs[last.effective].kind = "malformed"
    /\ last.outcome = "returned" /\ empty(last.result)

\* C2 as stated: an invocation on a missing path that saved its sample
\* returns a non-empty table with the three derived columns.
C2_SampleResultNonEmpty ==
    (last.called /\ ~last.existed /\ last.saved) =>
        /\ ~empty(last.result)
        /\ \A c \in {"value1_plus_10", "value2_div_value1", "value1_type"} :
               HasCol(last.result, c)

\* C3 as stated: after an invocation on a missing path that saved its
\* sample, the sample is at data/sample_input.csv under the project root of
\* the call, in a directory that exists.
C3_SampleUnderCurrentRoot ==
    (last.called /\ ~last.existed /\ last.saved) =>
        /\ fs[os_path_join(last.root, "sample_input.csv")] = to_csv(last.sample)
        /\ dataDir[last.root] = "present"

\* C4 as stated: a file that parses to zero rows or zero columns is
\* classified as the empty-input error and the empty table is returned at
\* once, no transform, filter or annotation having run, nothing raised.
C4_EmptyContentShortCircuit ==
    (/\ last.called /\ last.stages # <<>> /\ last.existed
     /\ \/ fs[last.effective].kind = "zero"
        \/ fs[last.effective].kind = "csv" /\ fs[last.effective].rows = <<>>) =>
        /\ last.outcome = "returned"
        /\ last.error = "EmptyDataError"
        /\ empty(last.result)
        /\ last.stages = <<"makedirs", "read_csv">>

\* C5: the rows of a returned table are exactly the loaded rows with
\* value1 > 20, once each and in their order; their number is the number of
\* such rows and at most the number of loaded rows.
C5_Filter ==
    Succeeded =>
        /\ [i \in 1..Len(last.result.rows) |-> InputPart(last.result.rows[i])]
             = SelectSeq(LoadedRows, LAMBDA r : r.value1 > 20)
        /\ Len(last.result.rows)
             = Cardinality({i \in 1..Len(LoadedRows) : LoadedRows[i].value1 > 20})
        /\ Len(last.result.rows) <= Len(LoadedRows)
        /\ \A i \in 1..Len(last.result.rows) : last.result.rows[i].value1 # 20

\* C5's case: a file with a row at the threshold and a row above it was
\* processed; the first was dropped, the second kept.
C5_Witness ==
    /\ Succeeded /\ last.existed
    /\ \E i \in 1..Len(LoadedRows) : LoadedRows[i].value1 = 20
    /\ Len(last.result.rows) = 1
    /\ Len(LoadedRows) = 2

\* C6: every row of a returned table has value1_type, which is "High" if
\* value1 > 35 and "Medium" if not.
C6_Annotation ==
    (last.called /\ last.outcome = "returned") =>
        \A i \in 1..Len(last.result.rows) :
            /\ HasCol(last.result, "value1_type")
            /\ "value1_type" \in DOMAIN last.result.rows[i]
            /\ last.result.rows[i].value1_type \in {"High", "Medium"}
            /\ last.result.rows[i].value1_type = "High"
                  <=> last.result.rows[i].value1 > 35

\* C6's case: a returned table with a row of value1 35, "Medium", and a row
\* of value1 36, "High".
C6_Witness ==
    /\ Succeeded
    /\ \E i, j \in 1..Len(last.result.rows) :
          /\ last.result.rows[i].value1 = 35
          /\ last.result.rows[i].value1_type = "Medium"
          /\ last.result.rows[j].value1 = 36
          /\ last.result.rows[j].value1_type = "High"

\* The try statement of the driver is over.
TryDone == pc \in {"end", "finished"}

\* C7: the driver writes the output file exactly when the pipeline returned
\* a non-empty table, and the file then holds that table (a write the file
\* system refuses is an exception of the run and writes nothing); in every
\* other run the output location is as it was before the run.
C7_OutputIffNonEmpty ==
    TryDone =>
        /\ run.save_called <=> (last.outcome = "returned" /\ ~empty(last.result))
        /\ (run.save_called /\ run.raised # "to_csv") =>
               fs[DEFAULT_OUTPUT_CSV_PATH] = to_csv(last.result)
        /\ (~run.save_called \/ run.raised = "to_csv") =>
               fs[DEFAULT_OUTPUT_CSV_PATH] = run.out_before
        /\ (last.outcome # "returned" \/ empty(last.result)) =>
               fs[DEFAULT_OUTPUT_CSV_PATH] = run.out_before

\* C7's case: a run whose pipeline returned a non-empty table wrote it over
\* the output file of an earlier run.
C7_Witness ==
    /\ pc = "finished"
    /\ Succeeded /\ ~empty(last.result)
    /\ run.save_called /\ run.out_before = OldOutput
    /\ fs[DEFAULT_OUTPUT_CSV_PATH] = to_csv(last.result)

\* C8: an invocation that repeats the one before it (same argument, same
\* project root) on a file that was there returns what that one returned.
C8_Idempotent ==
    [][(last'.repeat /\ last.existed) =>
          /\ last'.outcome = last.outcome
          /\ last'.result = last.result
          /\ last'.existed
          /\ \A p \in InputPaths : fs'[p] = fs[p]]_vars

\* C8's case: a repeated invocation on an existing file returned a
\* non-empty table.
C8_Witness ==
    last.repeat /\ last.existed /\ Succeeded /\ ~empty(last.result)

\* C9 as stated: whatever step of the run raises, the exception is caught
\* and logged at critical severity, and the run does not end abnormally.
C9_EveryExceptionCaught ==
    run.raised # "none" => (run.critical /\ pc # "crashed")

\* C9, amended: an exception raised inside the try statement (by the
\* pipeline or by the write of the output file) is caught and logged at
\* critical severity, and a run that has configured logging reaches the
\* "finished" log; an exception of setup_logging (the directory of the log
\* file cannot be made, or the log file cannot be opened) is not caught,
\* and that run ends with it, nothing logged and no file written.
C9_TryExceptionsCaught ==
    /\ [](run.raised \in {"process_data", "to_csv"} =>
             (run.critical /\ pc \in {"end", "finished"}))
    /\ [](pc = "crashed" <=> run.raised = "setup_logging")
    /\ [](pc = "crashed" =>
             \/ dataDir[dirname(DEFAULT_LOG_FILE_PATH)] = "blocked"
             \/ fs[DEFAULT_LOG_FILE_PATH].kind = "noaccess")
    /\ [][pc' = "crashed" => fs' = fs]_vars
    /\ (pc = "try") ~> (pc = "finished")

\* C9's case: the pipeline raised in a run, which logged it and finished.
C9_Witness ==
    pc = "finished" /\ run.raised = "process_data" /\ run.critical
        /\ last.outcome = "raised"

\* C10 as stated: the file an invocation writes is never its effective path.
C10_NeverEffectivePath ==
    (last.called /\ last.saved) => last.effective # DEFAULT_INPUT_CSV_PATH

\* C10, amended: the log file apart, an invocation writes a file only when
\* its effective path does not exist, and the only file it writes is the
\* default input file, which is its effective path exactly when that is the
\* default input path.  (a) When the effective path exists no file but the
\* log file changes.  (b) When it does not and the data directory can be
\* made, a sample is generated and its write attempted, in a repeated call
\* too; the write is done whenever the directory of the default input file
\* exists and that file may be written, whatever was there being replaced
\* by the sample; a missing path that is not the default is still missing
\* afterwards.  (c) The log file changes only in a process that has
\* configured logging, and there every invocation that gets past the making
\* of the data directory appends its records to it, once for each time
\* logging was configured.
C10_WriteFrame ==
    [][/\ \A p \in DataPaths \ {DEFAULT_INPUT_CSV_PATH, DEFAULT_OUTPUT_CSV_PATH} :
            fs'[p] = fs[p]
       /\ pc' = "idle" => fs'[DEFAULT_OUTPUT_CSV_PATH] = fs[DEFAULT_OUTPUT_CSV_PATH]
       /\ fs'[DEFAULT_INPUT_CSV_PATH] # fs[DEFAULT_INPUT_CSV_PATH] =>
              /\ last'.called /\ last'.saved
              /\ ~exists(fs, last'.effective)
              /\ Len(last'.sample.rows) = 5
              /\ fs'[DEFAULT_INPUT_CSV_PATH] = to_csv(last'.sample)
       /\ fs'[DEFAULT_LOG_FILE_PATH] # fs[DEFAULT_LOG_FILE_PATH] =>
              /\ handlers' > 0
              /\ fs'[DEFAULT_LOG_FILE_PATH].kind = "log"
              /\ fs[DEFAULT_LOG_FILE_PATH].kind = "log" =>
                     fs'[DEFAULT_LOG_FILE_PATH].records > fs[DEFAULT_LOG_FILE_PATH].records
       /\ (last' # last /\ last'.stages # <<>>) =>
              /\ last'.existed = exists(fs, last'.effective)
              /\ last'.existed =>
                     (~last'.saved /\ \A p \in InputPaths : fs'[p] = fs[p])
              /\ (handlers > 0 /\ pc' = "idle") =>
                     fs'[DEFAULT_LOG_FILE_PATH] =
                         LogFile(fs[DEFAULT_LOG_FILE_PATH].records
                                    + handlers * Len(last'.log))
              /\ (handlers = 0 /\ pc' = "idle") =>
                     fs'[DEFAULT_LOG_FILE_PATH] = fs[DEFAULT_LOG_FILE_PATH]
              /\ Len(last'.log) >= 2
              /\ ~last'.existed =>
                     /\ last'.stages[2] = "create_sample_dataframe"
                     /\ last'.stages[3] = "to_csv"
                     /\ last'.saved <=>
                            /\ dataDir'[dirname(DEFAULT_INPUT_CSV_PATH)] = "present"
                            /\ fs[DEFAULT_INPUT_CSV_PATH].kind # "noaccess"
                     /\ last'.saved => fs'[DEFAULT_INPUT_CSV_PATH] = to_csv(last'.sample)
                     /\ last'.effective # DEFAULT_INPUT_CSV_PATH =>
                            ~exists(fs', last'.effective)]_vars

\* C10's case: a repeated invocation on a missing path that is not the
\* default saved its sample to the default input file; the path is still
\* missing.
C10_Witness ==
    /\ last.called /\ last.repeat /\ ~last.existed /\ last.saved
    /\ last.effective = UserPath
    /\ ~exists(fs, UserPath)
    /\ fs[DEFAULT_INPUT_CSV_PATH] = to_csv(last.sample)
    /\ handlers > 0 /\ fs[DEFAULT_LOG_FILE_PATH].kind = "log"
    /\ fs[DEFAULT_LOG_FILE_PATH].records >= Len(last.log)

====
